---- MODULE Spec2Model ----
(***************************************************************************)
(* Model of the forecasting entry point of the operations dashboard:       *)
(* generateMockForecast (frontend/src/lib/mockData.ts) over the shared     *)
(* snapshot mockOperationalState, and of the dashboard page that calls it  *)
(* (frontend/src/pages/Index.tsx).                                         *)
(*                                                                         *)
(* Spec runs the function on the inputs it accepts; PageSpec runs the page *)
(* (mount, slider, Run, Apply, Reset and the completion of a pending run). *)
(*                                                                         *)
(* Numbers.  The source computes in IEEE doubles; the model computes in    *)
(* fixed point:                                                            *)
(*   - percentages (utilization, probabilities, risks) and minutes are     *)
(*     integers in thousandths (90% is 90000);                             *)
(*   - hourFactor is an integer in ten-thousandths (1.3 is 13000);         *)
(*   - a value of Math.random() is an integer in thousandths, 0..999;      *)
(*   - an instant is a whole number of hours; toISOString is modelled by   *)
(*     the pair <<day, hour of day>> it prints, compared as the strings    *)
(*     compare (field by field).                                           *)
(***************************************************************************)
EXTENDS Integers, Sequences, FiniteSets

VARIABLES
    workQueues,  \* mockOperationalState.workQueues, the snapshot the engine reads
    simulation,  \* the response the last call returned (NoResponse before any call)
    raised,      \* the error kind the last call failed with ("none": it returned)
    call,        \* the last call: its argument and the ambient inputs it read
    previous,    \* the response of the call before it, kept when that call had the
                 \* same argument and read the same clock (NoResponse otherwise);
                 \* kept for the direct calls of Spec, not for the page's runs
    isLoading,   \* Index: the isLoading state
    pending,     \* the handleRunSimulation calls waiting on their 1200 ms timer, oldest
                 \* first; each remembers the session it was requested in
    forecastHours, \* SimulationControls: the slider's value
    session,     \* what the user has applied so far: the number of suggestions and
                 \* the net employee change asked for per queue
    shown        \* the pending run whose completion set the displayed simulation

engineVars == <<workQueues, simulation, raised, call, previous>>
pageVars == <<isLoading, pending, forecastHours, session, shown>>
vars == <<workQueues, simulation, raised, call, previous,
          isLoading, pending, forecastHours, session, shown>>

----------------------------------------------------------------------------
(* Bounds of the model *)

\* the horizons 0..MaxHours (and the first one past the slider's range) are
\* passed to generateMockForecast
MaxHours == 3

\* a call's Math.random() draws repeat a tape of TapeLen values
TapeLen == 2

\* largest increase of workInProgress compared in the load-risk comparison
MaxWipIncrease == 3

\* at most MaxPending runs wait on their timers at once
MaxPending == 2

\* at most MaxApplies suggestions are applied in a session
MaxApplies == 2

(* Program constants *)

\* the horizon slider's range
MinHorizon == 1
MaxHorizon == 24

\* the horizon of the run the page starts on mount, the slider's first value and
\* the fallback of an Apply re-run
InitialHorizon == 8

----------------------------------------------------------------------------
(* Helpers *)

Min(a, b) == IF a <= b THEN a ELSE b
Max(a, b) == IF a >= b THEN a ELSE b

\* Math.round of n/d for d > 0: the nearest integer, halves rounded up
RoundDiv(n, d) == (2 * n + d) \div (2 * d)

\* 1000 * sin(k * pi / 12) for k = 0..23
Sin1000 ==
    << 0, 259, 500, 707, 866, 966, 1000, 966, 866, 707, 500, 259,
       0, -259, -500, -707, -866, -966, -1000, -966, -866, -707, -500, -259 >>

\* Date.getHours(), the hour of day of an instant
getHours(t) == t % 24

\* Date.toISOString(): the calendar fields the string prints, most significant first
toISOString(t) == << t \div 24, t % 24 >>

\* the order of two ISO strings (fixed-width fields, compared left to right)
IsoLess(a, b) == \/ a[1] < b[1]
                 \/ a[1] = b[1] /\ a[2] < b[2]

----------------------------------------------------------------------------
(* Inputs *)

NoResponse == [none |-> TRUE]
NoCall     == [none |-> TRUE]

\* mockOperationalState.workQueues as the source initialises it
MockWorkQueues ==
    << [id |-> "intake", name |-> "Case Intake", workInProgress |-> 45,
        capacity |-> 50, avgProcessTime |-> 15, employees |-> 5, complexity |-> 10],
       [id |-> "review", name |-> "Manual Review", workInProgress |-> 78,
        capacity |-> 60, avgProcessTime |-> 45, employees |-> 8, complexity |-> 25],
       [id |-> "approval", name |-> "Final Approval", workInProgress |-> 23,
        capacity |-> 40, avgProcessTime |-> 30, employees |-> 4, complexity |-> 18],
       [id |-> "completion", name |-> "Case Completion", workInProgress |-> 12,
        capacity |-> 50, avgProcessTime |-> 10, employees |-> 3, complexity |-> 10] >>

\* a single queue at 20% nominal load with more than one employee
LightQueue ==
    [id |-> "intake", name |-> "Case Intake", workInProgress |-> 10,
     capacity |-> 50, avgProcessTime |-> 15, employees |-> 3, complexity |-> 10]

\* a queue that breaks the WorkQueue invariant (negative work in progress)
BrokenQueue ==
    [id |-> "review", name |-> "Manual Review", workInProgress |-> -5,
     capacity |-> 60, avgProcessTime |-> 45, employees |-> 8, complexity |-> 25]

\* the snapshots the engine is run on: workQueues is a mutable exported array
QueueInputs ==
    { MockWorkQueues, << >>, << LightQueue >>, << BrokenQueue >>,
      SubSeq(MockWorkQueues, 1, 2) }

\* the horizons generateMockForecast is called with: the parameter is a plain
\* number, which the function takes whatever the slider allows
HorizonInputs == (0 .. MaxHours) \cup {MaxHorizon + 1}

\* the values the slider is moved to
SliderInputs == { MinHorizon, InitialHorizon }

\* the instants the clock (new Date()) is read at: noon and 22:00 of day 0
NowInputs == { 12, 22 }

\* the values Math.random() returns, in thousandths
RandValues == { 0, 999 }

\* the successive values of Math.random() during one call (repeated cyclically)
RandomTapes == [1 .. TapeLen -> RandValues]

\* the tapes on which Math.random() returns one value throughout
SteadyTapes == { [ k \in 1 .. TapeLen |-> v ] : v \in RandValues }

\* the n-th (0-based) value Math.random() returns during a call
Random(tape, n) == tape[(n % TapeLen) + 1]

----------------------------------------------------------------------------
(* generateMockForecast *)

\* hourFactor of loop index i (0-based): sin((i + now.getHours()) * pi / 12) * 0.3 + 1
hourFactor(i, now) == Sin1000[((i + getHours(now)) % 24) + 1] * 3 + 10000

\* baseUtil: (workInProgress / capacity) * 100
baseUtil(queue) == (queue.workInProgress * 100000) \div queue.capacity

\* utilization without the Math.min(100, ...) cap
utilization_Uncapped(queue, hf, r) ==
    (baseUtil(queue) * hf) \div 10000 + r * 10

\* utilization: min(100, baseUtil * hourFactor + random * 10)
utilization(queue, hf, r) ==
    Min(100000, (baseUtil(queue) * hf) \div 10000 + r * 10)

\* breachProb with the knee subtraction reversed
breachProb_Reversed(u, r) == Max(0, Min(100000, (60000 - u) * 2 + r * 15))

\* breachProb: max(0, min(100, (utilization - 60) * 2 + random * 15))
breachProb(u, r) == Max(0, Min(100000, (u - 60000) * 2 + r * 15))

\* bottleneckProb: max(0, min(100, (utilization - 50) * 1.5 + random * 10))
bottleneckProb(u, r) == Max(0, Min(100000, ((u - 50000) * 3) \div 2 + r * 10))

\* the prediction of one queue in one hour; n is the number of Math.random()
\* values drawn before it in this call, and the four draws are taken in source order
QueuePrediction(queue, hf, tape, n) ==
    LET u == utilization(queue, hf, Random(tape, n))
        breach == breachProb(u, Random(tape, n + 1))
        bottleneck == bottleneckProb(u, Random(tape, n + 2))
    IN  [ workInProgress |->
              RoundDiv(queue.workInProgress * hf + Random(tape, n + 3) * 100, 10000),
          utilization |-> u,
          bottleneckProbability |-> bottleneck,
          slaBreachProbability |-> breach,
          avgWaitTime |-> (queue.avgProcessTime * u) \div 50,
          processed |-> RoundDiv(queue.employees * 60 * 85, queue.avgProcessTime * 100) ]

\* predictions: the object the forEach fills, keyed by queue.id (a later queue
\* with the same id overwrites an earlier one)
Predictions(queues, i, now, tape) ==
    LET ids == { queues[k].id : k \in 1 .. Len(queues) }
        last(id) == CHOOSE k \in 1 .. Len(queues) :
                        /\ queues[k].id = id
                        /\ \A j \in 1 .. Len(queues) : queues[j].id = id => j <= k
    IN  [ id \in ids |->
            QueuePrediction(queues[last(id)], hourFactor(i, now), tape,
                            (i * Len(queues) + (last(id) - 1)) * 4) ]

\* Object.values(predictions).reduce((sum, p) => sum + p.slaBreachProbability, 0)
RECURSIVE SumBreach(_, _)
SumBreach(predictions, ids) ==
    IF ids = {} THEN 0
    ELSE LET id == CHOOSE x \in ids : TRUE
         IN  predictions[id].slaBreachProbability + SumBreach(predictions, ids \ {id})

\* totalBreachRisk: the sum divided by the literal 4
totalBreachRisk(predictions) ==
    SumBreach(predictions, DOMAIN predictions) \div 4

\* the entry with the loop index itself as its hour
HourlyForecast_ZeroBased(queues, i, now, tape) ==
    LET predictions == Predictions(queues, i, now, tape)
    IN  [ hour |-> i,
          timestamp |-> toISOString(now + (i + 1)),
          predictions |-> predictions,
          totalBreachRisk |-> totalBreachRisk(predictions) ]

\* the entry the loop pushes at index i (0-based)
HourlyForecast(queues, i, now, tape) ==
    LET predictions == Predictions(queues, i, now, tape)
    IN  [ hour |-> i + 1,
          timestamp |-> toISOString(now + (i + 1)),
          predictions |-> predictions,
          totalBreachRisk |-> totalBreachRisk(predictions) ]

\* resourceChange: null
NoChange == [none |-> TRUE]

\* the suggestions literal with the advisory entry listed first
MockSuggestions_AdvisoryFirst ==
    << [ severity |-> "medium", queue |-> "Final Approval", queueId |-> "approval",
         action |-> "Monitor closely and prepare to add resources",
         impact |-> "Prevent bottleneck formation",
         resourceChange |-> NoChange,
         reasoning |-> "Early indicators of bottleneck formation detected" ],
       [ severity |-> "high", queue |-> "Manual Review", queueId |-> "review",
         action |-> "Add 2 employee(s)", impact |-> "Reduce breach risk by ~42%",
         resourceChange |-> [queueId |-> "review", employeeChange |-> 2],
         reasoning |-> "Current workload (78 cases) exceeds safe capacity with high breach probability" ],
       [ severity |-> "low", queue |-> "Case Completion", queueId |-> "completion",
         action |-> "Reallocate 1-2 employee(s)",
         impact |-> "Free resources without risk increase",
         resourceChange |-> [queueId |-> "completion", employeeChange |-> -1],
         reasoning |-> "Low utilization (24%) indicates spare capacity" ] >>

\* the suggestions literal of the returned object
MockSuggestions ==
    << [ severity |-> "high", queue |-> "Manual Review", queueId |-> "review",
         action |-> "Add 2 employee(s)", impact |-> "Reduce breach risk by ~42%",
         resourceChange |-> [queueId |-> "review", employeeChange |-> 2],
         reasoning |-> "Current workload (78 cases) exceeds safe capacity with high breach probability" ],
       [ severity |-> "medium", queue |-> "Final Approval", queueId |-> "approval",
         action |-> "Monitor closely and prepare to add resources",
         impact |-> "Prevent bottleneck formation",
         resourceChange |-> NoChange,
         reasoning |-> "Early indicators of bottleneck formation detected" ],
       [ severity |-> "low", queue |-> "Case Completion", queueId |-> "completion",
         action |-> "Reallocate 1-2 employee(s)",
         impact |-> "Free resources without risk increase",
         resourceChange |-> [queueId |-> "completion", employeeChange |-> -1],
         reasoning |-> "Low utilization (24%) indicates spare capacity" ] >>

\* the metadata literal of the returned object
MockMetadata(hours, now) ==
    [ forecastHours |-> hours,
      averageBreachRisk |-> 32500,
      peakRiskHour |-> 4,
      peakRiskValue |-> 58200,
      resourceChangesApplied |-> 0,
      suggestionsGenerated |-> 3,
      simulationTimestamp |-> toISOString(now) ]

\* generateMockForecast whose loop stops one iteration early
generateMockForecast_ShortLoop(queues, hours, now, tape) ==
    [ forecast |-> [ k \in 1 .. hours - 1 |-> HourlyForecast(queues, k - 1, now, tape) ],
      suggestions |-> MockSuggestions,
      metadata |-> MockMetadata(hours, now) ]

\* generateMockForecast(hours) on the snapshot queues, the clock reading now
\* and Math.random() returning the values of tape
generateMockForecast(queues, hours, now, tape) ==
    [ forecast |-> [ k \in 1 .. hours |-> HourlyForecast(queues, k - 1, now, tape) ],
      suggestions |-> MockSuggestions,
      metadata |-> MockMetadata(hours, now) ]

----------------------------------------------------------------------------
(* The state machine *)

NoRun == [none |-> TRUE]

\* a session in which nothing has been applied
NewSession ==
    [ applied |-> 0,
      delta |-> [ id \in { MockWorkQueues[k].id : k \in 1 .. Len(MockWorkQueues) } |-> 0 ] ]

Init ==
    /\ workQueues \in QueueInputs
    /\ simulation = NoResponse
    /\ raised = "none"
    /\ call = NoCall
    /\ previous = NoResponse
    /\ isLoading = FALSE
    /\ pending = << >>
    /\ forecastHours = InitialHorizon
    /\ session = NewSession
    /\ shown = NoRun

\* one call of generateMockForecast(hours): it reads mockOperationalState, the
\* clock and Math.random(), returns the response and throws nothing
RunSimulation(hours, now, tape) ==
    /\ simulation' = generateMockForecast(workQueues, hours, now, tape)
    /\ raised' = "none"
    /\ call' = [hours |-> hours, now |-> now, tape |-> tape]
    /\ previous' = IF call # NoCall /\ call.hours = hours /\ call.now = now
                   THEN simulation
                   ELSE NoResponse
    /\ UNCHANGED workQueues
    /\ UNCHANGED pageVars

Next ==
    \E hours \in HorizonInputs, now \in NowInputs, tape \in RandomTapes :
        RunSimulation(hours, now, tape)

Spec == Init /\ [][Next]_vars

----------------------------------------------------------------------------
(* The dashboard page *)

\* handleRunSimulation(hours) up to its await: setIsLoading(true) and the timer
\* is started; the run remembers the session sess it was requested in
handleRunSimulation(hours, sess) ==
    /\ isLoading' = TRUE
    /\ pending' = Append(pending, [ hours |-> hours, beforeReset |-> FALSE,
                                    applied |-> sess.applied, delta |-> sess.delta ])

\* the page after its first render and its mount effect, handleRunSimulation(8)
PageInit ==
    /\ workQueues = MockWorkQueues
    /\ simulation = NoResponse
    /\ raised = "none"
    /\ call = NoCall
    /\ previous = NoResponse
    /\ isLoading = TRUE
    /\ pending = << [ hours |-> InitialHorizon, beforeReset |-> FALSE,
                      applied |-> 0, delta |-> NewSession.delta ] >>
    /\ forecastHours = InitialHorizon
    /\ session = NewSession
    /\ shown = NoRun

\* the slider's onValueChange
setForecastHours(h) ==
    /\ h # forecastHours
    /\ forecastHours' = h
    /\ UNCHANGED engineVars
    /\ UNCHANGED <<isLoading, pending, session, shown>>

\* the Run Simulation button (disabled while isLoading)
ClickRun ==
    /\ ~isLoading
    /\ Len(pending) < MaxPending
    /\ handleRunSimulation(forecastHours, session)
    /\ UNCHANGED engineVars
    /\ UNCHANGED <<forecastHours, session, shown>>

\* handleApplySuggestion that also writes the change into the shared snapshot
handleApplySuggestion_InPlace(j) ==
    /\ simulation # NoResponse
    /\ j \in 1 .. Len(simulation.suggestions)
    /\ simulation.suggestions[j].resourceChange # NoChange
    /\ Len(pending) < MaxPending
    /\ session.applied < MaxApplies
    /\ LET change == simulation.suggestions[j].resourceChange
           hours == IF simulation.metadata.forecastHours # 0
                    THEN simulation.metadata.forecastHours
                    ELSE InitialHorizon
       IN  /\ session' = [ applied |-> session.applied + 1,
                           delta |-> [ session.delta EXCEPT
                                         ![change.queueId] = @ + change.employeeChange ] ]
           /\ handleRunSimulation(hours, session')
           /\ workQueues' = [ k \in 1 .. Len(workQueues) |->
                                IF workQueues[k].id = change.queueId
                                THEN [ workQueues[k] EXCEPT
                                         !.employees = @ + change.employeeChange ]
                                ELSE workQueues[k] ]
    /\ UNCHANGED <<simulation, raised, call, previous>>
    /\ UNCHANGED <<forecastHours, shown>>

\* the Apply button of the j-th suggestion card (rendered while a simulation is
\* displayed, for a suggestion with a resourceChange; never disabled):
\* handleApplySuggestion toasts and re-runs with the displayed horizon
handleApplySuggestion(j) ==
    /\ simulation # NoResponse
    /\ j \in 1 .. Len(simulation.suggestions)
    /\ simulation.suggestions[j].resourceChange # NoChange
    /\ Len(pending) < MaxPending
    /\ session.applied < MaxApplies
    /\ LET change == simulation.suggestions[j].resourceChange
           hours == IF simulation.metadata.forecastHours # 0
                    THEN simulation.metadata.forecastHours
                    ELSE InitialHorizon
       IN  /\ session' = [ applied |-> session.applied + 1,
                           delta |-> [ session.delta EXCEPT
                                         ![change.queueId] = @ + change.employeeChange ] ]
           /\ handleRunSimulation(hours, session')
    /\ UNCHANGED engineVars
    /\ UNCHANGED <<forecastHours, shown>>

\* the Reset button (disabled while isLoading): setSimulation(null); the runs
\* still pending were requested before this reset
handleReset ==
    /\ ~isLoading
    /\ simulation' = NoResponse
    /\ shown' = NoRun
    /\ pending' = [ k \in 1 .. Len(pending) |->
                      [ pending[k] EXCEPT !.beforeReset = TRUE ] ]
    /\ UNCHANGED <<workQueues, raised, call, previous>>
    /\ UNCHANGED <<isLoading, forecastHours, session>>

\* the oldest timer fires and handleRunSimulation resumes after its await:
\* generateMockForecast(hours), setSimulation(result), setIsLoading(false)
TimerFires(now, tape) ==
    /\ pending # << >>
    /\ LET run == Head(pending)
       IN  /\ simulation' = generateMockForecast(workQueues, run.hours, now, tape)
           /\ raised' = "none"
           /\ call' = [hours |-> run.hours, now |-> now, tape |-> tape]
           /\ shown' = run
    /\ isLoading' = FALSE
    /\ pending' = Tail(pending)
    /\ UNCHANGED <<workQueues, previous, forecastHours, session>>

PageNext ==
    \/ \E h \in SliderInputs : setForecastHours(h)
    \/ ClickRun
    \/ \E j \in 1 .. Len(MockSuggestions) : handleApplySuggestion(j)
    \/ handleReset
    \/ \E now \in NowInputs, tape \in SteadyTapes : TimerFires(now, tape)

PageSpec == PageInit /\ [][PageNext]_vars

----------------------------------------------------------------------------
(* Properties *)

Returned == simulation # NoResponse

\* the hours of the returned forecast and the queue positions of the snapshot
Hours == 1 .. Len(simulation.forecast)
Queues == 1 .. Len(workQueues)

\* the WorkQueue invariant of the data model
ValidQueue(q) == /\ q.workInProgress >= 0
                 /\ q.capacity > 0
                 /\ q.avgProcessTime > 0
                 /\ q.employees >= 0

AllValid == \A idx \in Queues : ValidQueue(workQueues[idx])

\* the last call had inputs the contract accepts: a horizon in the slider's range
\* and a non-empty collection of valid queues
ValidHorizon == call # NoCall /\ call.hours \in MinHorizon .. MaxHorizon
ValidState == Len(workQueues) >= 1 /\ AllValid
ValidCall == ValidHorizon /\ ValidState

\* the prediction of the queue at position idx in the entry of hour k
PredictionAt(k, idx) == simulation.forecast[k].predictions[workQueues[idx].id]

\* C1: the forecast of a call with horizon H has exactly H entries, the entry at
\* position k has hour k, its timestamp is now + k hours, and the timestamps
\* are strictly increasing
ForecastShape ==
    Returned =>
        /\ Len(simulation.forecast) = call.hours
        /\ \A k \in Hours :
              /\ simulation.forecast[k].hour = k
              /\ simulation.forecast[k].timestamp = toISOString(call.now + k)
        /\ \A k \in Hours : k + 1 \in Hours =>
              /\ simulation.forecast[k].hour < simulation.forecast[k + 1].hour
              /\ IsoLess(simulation.forecast[k].timestamp,
                         simulation.forecast[k + 1].timestamp)

\* a forecast of several hours whose timestamps cross midnight
ForecastShapeWitness ==
    /\ Returned
    /\ Len(simulation.forecast) >= 3
    /\ \E k \in Hours : /\ k + 1 \in Hours
                        /\ simulation.forecast[k].timestamp[1]
                             < simulation.forecast[k + 1].timestamp[1]
                        /\ simulation.forecast[k].timestamp[2]
                             > simulation.forecast[k + 1].timestamp[2]

\* the inputs C2 calls valid: workInProgress >= 0 and capacity > 0
ValidLoads == \A idx \in Queues : /\ workQueues[idx].workInProgress >= 0
                                  /\ workQueues[idx].capacity > 0

\* C2: on valid inputs every prediction of every hour has its utilization, its
\* slaBreachProbability and its bottleneckProbability in [0, 100]
ClampingInvariant ==
    (Returned /\ ValidLoads) =>
        \A k \in Hours : \A idx \in Queues :
            /\ PredictionAt(k, idx).utilization \in 0 .. 100000
            /\ PredictionAt(k, idx).slaBreachProbability \in 0 .. 100000
            /\ PredictionAt(k, idx).bottleneckProbability \in 0 .. 100000

\* valid queues of which one is overloaded (its utilization sits on the cap) and
\* another is idle enough for both probabilities to sit on 0
ClampingWitness ==
    /\ Returned /\ ValidLoads
    /\ \E k \in Hours : \E idx \in Queues :
          /\ baseUtil(workQueues[idx]) > 100000
          /\ PredictionAt(k, idx).utilization = 100000
    /\ \E k \in Hours : \E idx \in Queues :
          /\ PredictionAt(k, idx).slaBreachProbability = 0
          /\ PredictionAt(k, idx).bottleneckProbability = 0

\* C3: in a response to a valid call, metadata.peakRiskValue is the maximum
\* totalBreachRisk over the forecast hours and metadata.peakRiskHour is the
\* first hour that achieves it
PeakRiskConsistent ==
    (Returned /\ ValidCall) =>
        \E k \in Hours :
            /\ \A j \in Hours : simulation.forecast[j].totalBreachRisk
                                  <= simulation.forecast[k].totalBreachRisk
            /\ \A j \in Hours : j < k => simulation.forecast[j].totalBreachRisk
                                           < simulation.forecast[k].totalBreachRisk
            /\ simulation.metadata.peakRiskValue = simulation.forecast[k].totalBreachRisk
            /\ simulation.metadata.peakRiskHour = simulation.forecast[k].hour

\* C4: a call (on an otherwise valid snapshot) fails with InvalidHorizon exactly
\* when its horizon is outside [1, 24], and a failed call returns no forecast
InvalidHorizonRaised ==
    (call # NoCall /\ ValidState) =>
        /\ (raised = "InvalidHorizon") <=> (call.hours \notin MinHorizon .. MaxHorizon)
        /\ (call.hours \notin MinHorizon .. MaxHorizon) => ~Returned

\* C5: a call (with a valid horizon) fails with EmptyQueueSet exactly when the
\* queue collection is empty, and on an empty collection no aggregate risk is
\* computed and returned
EmptyQueueSetRaised ==
    ValidHorizon =>
        /\ (raised = "EmptyQueueSet") <=> (Len(workQueues) = 0)
        /\ (Len(workQueues) = 0) => ~Returned

\* C6: two valid calls on the same snapshot with the same horizon return
\* identical responses.  The function takes no seed; the two calls compared
\* agree on everything a caller can fix: snapshot, horizon and clock reading
Determinism ==
    (Returned /\ ValidCall /\ previous # NoResponse) => simulation = previous

\* C7: with capacity, hour, hour of day and the drawn values fixed, a larger
\* workInProgress never gives a smaller slaBreachProbability
LoadRiskMonotone ==
    Returned =>
        \A k \in Hours : \A idx \in Queues : \A d \in 1 .. MaxWipIncrease :
            LET heavier == [workQueues[idx] EXCEPT !.workInProgress = @ + d]
                n == ((k - 1) * Len(workQueues) + (idx - 1)) * 4
            IN  QueuePrediction(heavier, hourFactor(k - 1, call.now), call.tape, n)
                        .slaBreachProbability
                    >= PredictionAt(k, idx).slaBreachProbability

\* a queue whose breach probability strictly grows with more work in progress,
\* and one whose breach probability stays (clamped) where it was
LoadRiskWitness ==
    /\ Returned
    /\ \E k \in Hours : \E idx \in Queues : \E d \in 1 .. MaxWipIncrease :
          LET heavier == [workQueues[idx] EXCEPT !.workInProgress = @ + d]
              n == ((k - 1) * Len(workQueues) + (idx - 1)) * 4
          IN  QueuePrediction(heavier, hourFactor(k - 1, call.now), call.tape, n)
                      .slaBreachProbability
                  > PredictionAt(k, idx).slaBreachProbability
    /\ \E k \in Hours : \E idx \in Queues :
          LET heavier == [workQueues[idx] EXCEPT !.workInProgress = @ + MaxWipIncrease]
              n == ((k - 1) * Len(workQueues) + (idx - 1)) * 4
          IN  QueuePrediction(heavier, hourFactor(k - 1, call.now), call.tape, n)
                      .slaBreachProbability
                  = PredictionAt(k, idx).slaBreachProbability

\* the order of queue ids as strings
SortedIds == << "approval", "completion", "intake", "review" >>
IdRank(id) == CHOOSE n \in 1 .. Len(SortedIds) : SortedIds[n] = id

SeverityRank(severity) ==
    CASE severity = "high" -> 3
      [] severity = "medium" -> 2
      [] severity = "low" -> 1

\* C8: the suggestions are non-increasing in severity and, among suggestions
\* of equal severity, non-decreasing in queue id
SuggestionOrdering ==
    Returned =>
        \A j \in 1 .. Len(simulation.suggestions) :
          \A k \in 1 .. Len(simulation.suggestions) :
            j < k =>
              LET a == simulation.suggestions[j]
                  b == simulation.suggestions[k]
              IN  /\ SeverityRank(a.severity) >= SeverityRank(b.severity)
                  /\ SeverityRank(a.severity) = SeverityRank(b.severity)
                        => IdRank(a.queueId) <= IdRank(b.queueId)

\* a response with suggestions of all three severities
SuggestionOrderingWitness ==
    /\ Returned
    /\ Len(simulation.forecast) >= 1
    /\ \A sev \in {"high", "medium", "low"} :
          \E j \in 1 .. Len(simulation.suggestions) :
              simulation.suggestions[j].severity = sev

\* the worst observed values of the queue at position idx reach the high rule
WorstIsHigh(idx) ==
    \E k \in Hours : \/ PredictionAt(k, idx).slaBreachProbability >= 60000
                     \/ PredictionAt(k, idx).utilization >= 85000

\* a high suggestion that adds N >= 1 employees to the queue id
HighSuggestionFor(id) ==
    \E j \in 1 .. Len(simulation.suggestions) :
        LET s == simulation.suggestions[j]
        IN  /\ s.severity = "high"
            /\ s.queueId = id
            /\ s.resourceChange # NoChange
            /\ s.resourceChange.queueId = id
            /\ s.resourceChange.employeeChange >= 1

\* C9: in a response to a valid call, a queue gets a high suggestion
\* {queueId, +N} exactly when its worst slaBreachProbability over the horizon is
\* >= 60 or its worst utilization is >= 85
HighSuggestionRule ==
    (Returned /\ ValidCall) =>
        \A idx \in Queues : HighSuggestionFor(workQueues[idx].id) <=> WorstIsHigh(idx)

\* C10: a single queue whose utilization is 20% in every hour of the horizon
\* gets no high and no medium suggestion and, with more than one employee, a
\* low suggestion for that queue with employeeChange = -1
LightQueueScenario ==
    ( /\ Returned /\ ValidCall
      /\ Len(workQueues) = 1
      /\ \A k \in Hours : PredictionAt(k, 1).utilization = 20000 )
    =>
        /\ \A j \in 1 .. Len(simulation.suggestions) :
              simulation.suggestions[j].severity = "low"
        /\ workQueues[1].employees > 1 =>
              \E j \in 1 .. Len(simulation.suggestions) :
                  LET s == simulation.suggestions[j]
                  IN  /\ s.severity = "low"
                      /\ s.queueId = workQueues[1].id
                      /\ s.resourceChange # NoChange
                      /\ s.resourceChange.queueId = workQueues[1].id
                      /\ s.resourceChange.employeeChange = -1

----------------------------------------------------------------------------
(* Properties of the aggregates and of the projection *)

\* C12: in a response to a valid call, every hour's totalBreachRisk is the
\* arithmetic mean of the slaBreachProbability of the queues in that hour's
\* predictions: their sum divided by their number
MeanOfQueues ==
    (Returned /\ ValidCall) =>
        \A k \in Hours :
            LET predictions == simulation.forecast[k].predictions
            IN  simulation.forecast[k].totalBreachRisk
                    = SumBreach(predictions, DOMAIN predictions)
                          \div Cardinality(DOMAIN predictions)

\* the sum of slaBreachProbability over the (hour, queue) pairs of hours 1..k
RECURSIVE SumBreachUpTo(_)
SumBreachUpTo(k) ==
    IF k = 0 THEN 0
    ELSE SumBreach(simulation.forecast[k].predictions,
                   DOMAIN simulation.forecast[k].predictions)
             + SumBreachUpTo(k - 1)

\* C13: in a response to a valid call, metadata.averageBreachRisk is the mean
\* of slaBreachProbability over all (hour, queue) pairs of its forecast
AverageBreachRiskConsistent ==
    (Returned /\ ValidCall) =>
        simulation.metadata.averageBreachRisk
            = SumBreachUpTo(Len(simulation.forecast))
                  \div (Len(simulation.forecast) * Len(workQueues))

\* C16: a call whose snapshot holds a queue that breaks the WorkQueue invariant
\* fails with InvalidQueueState and returns no response
InvalidQueueStateRaised ==
    (ValidHorizon /\ Len(workQueues) >= 1 /\ ~AllValid) =>
        /\ raised = "InvalidQueueState"
        /\ ~Returned

\* the demand-intensity factor of hour offset h (1-indexed):
\* 1 + 0.3 * sin(pi * (h + currentHourOfDay) / 12)
intensityFactor(h, now) == Sin1000[((h + getHours(now)) % 24) + 1] * 3 + 10000

\* C17: in a response to a valid call, the predictions of the entry that reports
\* hour h are the ones the intensity factor of phase h + currentHourOfDay gives
IntensityPhase ==
    (Returned /\ ValidCall) =>
        \A k \in Hours : \A idx \in Queues :
            PredictionAt(k, idx)
                = QueuePrediction(workQueues[idx],
                                  intensityFactor(simulation.forecast[k].hour, call.now),
                                  call.tape,
                                  ((k - 1) * Len(workQueues) + (idx - 1)) * 4)

----------------------------------------------------------------------------
(* Properties of the dashboard page *)

\* C11: on the four example queues with horizon 8 the response has 8 entries,
\* a non-empty suggestion list with a high suggestion for the queue with
\* workInProgress 78 and capacity 60, and metadata.forecastHours = 8
ExampleScenario ==
    (Returned /\ workQueues = MockWorkQueues /\ call.hours = InitialHorizon) =>
        /\ Len(simulation.forecast) = InitialHorizon
        /\ Len(simulation.suggestions) >= 1
        /\ \E idx \in Queues :
              /\ workQueues[idx].workInProgress = 78
              /\ workQueues[idx].capacity = 60
              /\ \E j \in 1 .. Len(simulation.suggestions) :
                    /\ simulation.suggestions[j].severity = "high"
                    /\ simulation.suggestions[j].queueId = workQueues[idx].id
        /\ simulation.metadata.forecastHours = InitialHorizon

\* the run the page starts on mount has completed on the example queues
ExampleScenarioWitness ==
    /\ Returned
    /\ workQueues = MockWorkQueues
    /\ call.hours = InitialHorizon
    /\ Len(simulation.forecast) = InitialHorizon
    /\ session.applied = 0

\* the displayed simulation comes from a run requested after an Apply
ShownAfterApply == Returned /\ shown # NoRun /\ shown.applied >= 1

\* C14: when the re-run that follows an Apply is displayed, the caller's
\* snapshot has the employees of each queue changed by what was applied, and
\* the re-run's processed values are those of the changed employee counts
ApplyReplacesSnapshot ==
    ShownAfterApply =>
        \A idx \in Queues :
            LET q == MockWorkQueues[idx]
                employees == q.employees + shown.delta[q.id]
            IN  /\ workQueues[idx].employees = employees
                /\ \A k \in Hours :
                      PredictionAt(k, idx).processed
                          = RoundDiv(employees * 60 * 85, q.avgProcessTime * 100)

\* C15: the displayed response reports as resourceChangesApplied the number of
\* suggestions that had been applied in the session when its run was requested
AppliedCountReported ==
    (Returned /\ shown # NoRun) =>
        simulation.metadata.resourceChangesApplied = shown.applied

\* C18: no step of the page (a run, an Apply, a Reset) changes a field of a
\* queue of the shared snapshot
SnapshotUnchanged == [][workQueues' = workQueues]_vars

\* a re-run requested by an Apply has completed and is displayed
SnapshotUnchangedWitness ==
    /\ ShownAfterApply
    /\ workQueues = MockWorkQueues
    /\ ~isLoading

\* C19: isLoading is true whenever a run is pending
LoadingWhilePending == (Len(pending) >= 1) => isLoading

\* C20: the displayed simulation never comes from a run that was requested
\* before the last Reset
ResetStaysNull ==
    (Returned /\ shown # NoRun) => ~shown.beforeReset

====
